---- MODULE Spec2Model ----
(***************************************************************************)
(* A model of logrus-rollingfile-hook: RollingFileTimeHook (time-bucket    *)
(* rolling policy) on top of rollingFile (close / scan / rename / prune),  *)
(* the directory it manages, and the logging framework that calls Fire and *)
(* then writes the record to Logger.Out.                                   *)
(*                                                                         *)
(* Strings are sequences of tokens: "" is << >>, concatenation is \o, and  *)
(* strings.HasPrefix is a comparison of SubSeq.  A file is an inode with a *)
(* content (a sequence of record ids); a directory maps names to inodes;   *)
(* an *os.File is an index into handles (0 is the nil pointer).            *)
(***************************************************************************)
EXTENDS Integers, Sequences, FiniteSets, TLC

\* ------------------------------------------------------------------ bounds
NPast == 2          \* days before the start whose history files may exist
TicksPerDay == 2    \* clock ticks in one time bucket
MaxTicks == 4       \* ticks the clock advances after the start
MaxEmits == 3       \* records the framework emits
MaxFaults == 1      \* failing calls (file system, formatter) in one run
MaxCloses == 2      \* calls of Close

Emitters == {1, 2}
MaxRollsChoices == {-1, 0, 1, 2}

NIL == 0
STDERR == -1

\* ------------------------------------------------------------------- names
fileName == <<"test.log">>

rollingLogHistoryDelimiter == <<".">>

StartTime == NPast * TicksPerDay

Times == 0..(StartTime + MaxTicks)

\* time.Now().Format(h.timePattern) with a day-granularity pattern: every
\* tick of one day renders to the same label.
Format(t) == <<ToString(t \div TicksPerDay)>>

Labels == {Format(t) : t \in Times}

\* time.ParseInLocation(pattern, s, time.Local): the start of the bucket the
\* label names; err # nil is -1 (the time value is then the zero time).
ParseInLocation(s) ==
    IF s \in Labels
    THEN (CHOOSE t \in Times : Format(t) = s /\ t % TicksPerDay = 0)
    ELSE -1

\* (mutant) any non-empty suffix is taken for a label.
isFileRollNameValidAny(rname) == Len(rname) # 0

isFileRollNameValid(rname) ==
    IF Len(rname) = 0 THEN FALSE ELSE ParseInLocation(rname) # -1

\* (mutant) the later label is the lesser.
LessReversed(a, b) == ParseInLocation(a) > ParseInLocation(b)

Less(a, b) == ParseInLocation(a) < ParseInLocation(b)

\* sort.Sort over the tails found by the scan (the directory listing has no
\* order of its own): ascending by Less.
RECURSIVE sortFileRollNamesAsc(_)
sortFileRollNamesAsc(fs) ==
    IF fs = {} THEN << >>
    ELSE LET m == CHOOSE x \in fs : \A y \in fs : ~Less(y, x)
         IN  <<m>> \o sortFileRollNamesAsc(fs \ {m})

hasRollName(file) ==
    LET rname == fileName \o rollingLogHistoryDelimiter
    IN  /\ Len(file) >= Len(rname)
        /\ SubSeq(file, 1, Len(rname)) = rname

getFileRollName(file) ==
    SubSeq(file, Len(fileName \o rollingLogHistoryDelimiter) + 1, Len(file))

createFullFileName(originalName, rollname) ==
    originalName \o rollingLogHistoryDelimiter \o rollname

\* The scan of getSortedLogHistory over the names of a directory d.
getSortedLogHistory(d) ==
    LET validRollNames ==
            {getFileRollName(f) : f \in
                {g \in DOMAIN d :
                    hasRollName(g) /\ isFileRollNameValid(getFileRollName(g))}}
        sortedTails == sortFileRollNamesAsc(validRollNames)
    IN  [i \in 1..Len(sortedTails) |->
            createFullFileName(fileName, sortedTails[i])]

\* len(serialized) of a record.
RecLen(r) == 1 + (r % 2)

RECURSIVE SizeOf(_)
SizeOf(c) == IF c = << >> THEN 0 ELSE RecLen(Head(c)) + SizeOf(Tail(c))

Range(s) == {s[i] : i \in 1..Len(s)}

VARIABLES
    now,                  \* the wall clock, in ticks: the latest reading of time.Now()
    dir,                  \* the directory: name -> inode
    content,              \* inode -> the records in the file
    handles,              \* every *os.File opened: [ino, open]
    currentFile,          \* rollingFile.currentFile (NIL or a handle)
    currentName,          \* rollingFile.currentName
    currentFileSize,      \* rollingFile.currentFileSize
    maxRolls,             \* rollingFile.maxRolls
    currentTimeFileName,  \* RollingFileTimeHook.currentTimeFileName
    rollLock,             \* rollingFile.rollLock: 0 or the emitter holding it
    Out,                  \* Logger.Out: STDERR, NIL or a handle
    pc,                   \* each emitter's position
    rec,                  \* the record each emitter is emitting
    formattable,          \* whether the formatter accepts that record
    newName,              \* needsToRoll's local newName
    history,              \* roll's local history
    newHistoryName,       \* roll's local newHistoryName
    idx,                  \* deleteOldRolls' loop index i
    err,                  \* the error Fire is returning
    closePc,              \* the position of the caller of Close
    nextRec,              \* the next record id
    faults,               \* failing calls so far
    closes,               \* calls of Close so far
    \* history variables: what happened, for the properties
    accepted,             \* records whose Fire returned nil
    rolls,                \* rolls that returned nil
    seenLabels,           \* the bucket labels needsToRoll has read
    removed,              \* names pruning has removed from the directory
    lostToPrune,          \* records that were in a file pruning removed
    attempts,             \* the delete attempts of the latest roll, in order
    pruned,               \* the names the latest roll removed
    preRoll,              \* the active file's content when the roll began
    emitFault,            \* a call failed during the emitter's current Emit
    rollFailed,           \* the step at which a call last failed in a roll (of an Emit that has returned)
    prevErr,              \* the error of the latest Emit that returned
    straddled,            \* the clock changed bucket between the two reads of a roll
    closeFailed,          \* a call of Close returned an error
    closeErr              \* what the latest call of Close returned

hookVars == <<currentFile, currentName, currentFileSize, maxRolls,
              currentTimeFileName, rollLock>>
fsVars == <<dir, content, handles>>
emVars == <<pc, rec, formattable, newName, history, newHistoryName, idx, err>>
ghostVars == <<accepted, rolls, seenLabels, removed, lostToPrune, attempts,
               pruned, preRoll, emitFault, rollFailed, prevErr, straddled,
               closeFailed, closeErr>>
vars == <<now, fsVars, hookVars, Out, emVars, closePc, nextRec, faults, closes,
          ghostVars>>

\* --------------------------------------------------------------------- Init
\* The directory a run starts in: two files the hook does not own, the
\* history files earlier runs left for some of the past days (each with the
\* one record -(d+1)), and perhaps the active file of an earlier run (with
\* the record 0).
noiseNames == << <<"other.log">>, <<"test.log", ".", "bak">> >>

PastDays == 0..(NPast - 1)

InitNames(S, resume) ==
    noiseNames
    \o [i \in 1..Cardinality(S) |->
            getSortedLogHistory(
                [n \in {createFullFileName(fileName, <<ToString(d)>>) : d \in S}
                    |-> 0])[i]]
    \o (IF resume THEN <<fileName>> ELSE << >>)

InitContent(names) ==
    [i \in 1..Len(names) |->
        IF names[i] = fileName THEN <<0>>
        ELSE IF hasRollName(names[i]) /\ isFileRollNameValid(getFileRollName(names[i]))
             THEN <<0 - (ParseInLocation(getFileRollName(names[i])) \div TicksPerDay) - 1>>
             ELSE << >>]

Init ==
    /\ now = StartTime
    /\ \E S \in SUBSET PastDays, resume \in BOOLEAN :
          LET names == InitNames(S, resume)
          IN  /\ dir = [n \in Range(names) |->
                           CHOOSE i \in 1..Len(names) : names[i] = n]
              /\ content = InitContent(names)
    /\ handles = << >>
    \* NewRollingFileTimeHook(fpath, timePattern, maxroll)
    /\ currentFile = NIL
    /\ currentName = << >>
    /\ currentFileSize = 0
    /\ maxRolls \in MaxRollsChoices
    /\ currentTimeFileName = << >>
    /\ rollLock = 0
    /\ Out = STDERR
    /\ pc = [e \in Emitters |-> "idle"]
    /\ rec = [e \in Emitters |-> 0]
    /\ formattable = [e \in Emitters |-> TRUE]
    /\ newName = [e \in Emitters |-> << >>]
    /\ history = [e \in Emitters |-> << >>]
    /\ newHistoryName = [e \in Emitters |-> << >>]
    /\ idx = [e \in Emitters |-> 0]
    /\ err = [e \in Emitters |-> "nil"]
    /\ closePc = "idle"
    /\ nextRec = 1
    /\ faults = 0
    /\ closes = 0
    /\ accepted = {}
    /\ rolls = 0
    /\ seenLabels = {}
    /\ removed = {}
    /\ lostToPrune = {}
    /\ attempts = << >>
    /\ pruned = {}
    /\ preRoll = << >>
    /\ emitFault = [e \in Emitters |-> FALSE]
    /\ rollFailed = "none"
    /\ prevErr = "nil"
    /\ straddled = FALSE
    /\ closeFailed = FALSE
    /\ closeErr = "nil"

\* -------------------------------------------------------------------- clock
\* time.Now(): a reading no earlier than the one before.
Readings == now..(StartTime + MaxTicks)

\* ------------------------------------------------------------ file system
\* (mutant) the handle stays open.
CloseHandleNot(hs, h) == hs

\* (*os.File).Close: the handle is closed afterwards whatever it returns.
CloseHandle(hs, h) == [hs EXCEPT ![h].open = FALSE]

\* os.Rename: the inode moves to the new name, replacing what was there.
RenameFile(d, old, new) ==
    [n \in (DOMAIN d \ {old}) \cup {new} |-> IF n = new THEN d[old] ELSE d[n]]

\* os.Remove
RemoveFile(d, name) == [n \in DOMAIN d \ {name} |-> d[n]]

\* (mutant) O_TRUNC in the place of O_APPEND: an existing file is emptied.
OpenFileTrunc(d, c, name) ==
    IF name \in DOMAIN d
    THEN [dir |-> d, content |-> [c EXCEPT ![d[name]] = << >>], ino |-> d[name]]
    ELSE [dir |-> [n \in DOMAIN d \cup {name} |->
                      IF n = name THEN Len(c) + 1 ELSE d[n]],
          content |-> Append(c, << >>),
          ino |-> Len(c) + 1]

\* (mutant) an existing file is replaced by a new, empty one.
OpenFileCreateNew(d, c, name) ==
    [dir |-> [n \in DOMAIN d \cup {name} |->
                 IF n = name THEN Len(c) + 1 ELSE d[n]],
     content |-> Append(c, << >>),
     ino |-> Len(c) + 1]

\* os.OpenFile(filePath, O_WRONLY|O_APPEND|O_CREATE, perm): the file's inode,
\* created empty when the name is absent, its content kept when present.
OpenFile(d, c, name) ==
    IF name \in DOMAIN d
    THEN [dir |-> d, content |-> c, ino |-> d[name]]
    ELSE [dir |-> [n \in DOMAIN d \cup {name} |->
                      IF n = name THEN Len(c) + 1 ELSE d[n]],
          content |-> Append(c, << >>),
          ino |-> Len(c) + 1]

\* (mutant) one entry too many is deleted.
rollsToDeleteOffByOne(h, maxr) ==
    IF maxr <= 0 THEN 0
    ELSE IF Len(h) - maxr <= 0 THEN 0 ELSE Len(h) - maxr + 1

\* (mutant) only a negative limit means unlimited.
rollsToDeleteZeroLimited(h, maxr) ==
    IF maxr < 0 THEN 0
    ELSE IF Len(h) - maxr <= 0 THEN 0 ELSE Len(h) - maxr

\* deleteOldRolls: how many of the oldest entries of the history it deletes.
rollsToDelete(h, maxr) ==
    IF maxr <= 0 THEN 0
    ELSE IF Len(h) - maxr <= 0 THEN 0 ELSE Len(h) - maxr

\* A call fails only while the run's budget of failing calls lasts.
CanFail == faults < MaxFaults

\* The errors of roll that come from a failing call, and the step of roll
\* each comes from.
RollErrors == {"CloseError", "DirectoryAccessError", "RenameError"}

RollStep(error) ==
    CASE error = "CloseError" -> "close"
      [] error = "DirectoryAccessError" -> "scan"
      [] error = "RenameError" -> "rename"

\* (mutant) an error return leaves without the deferred Unlock.
ReturnLocked(e, error) ==
    /\ err' = [err EXCEPT ![e] = error]
    /\ pc' = [pc EXCEPT ![e] = IF error = "nil" THEN "unlock" ELSE "write"]

\* Fire returns the error: the deferred Unlock is the next step.
Return(e, error) ==
    /\ err' = [err EXCEPT ![e] = error]
    /\ pc' = [pc EXCEPT ![e] = "unlock"]

\* ------------------------------------------------------------------ emitter
\* The framework takes a record and calls the hook (logrus.Debugf).
EmitCall(e) ==
    /\ pc[e] = "idle"
    /\ nextRec <= MaxEmits
    /\ \E ok \in BOOLEAN :
          /\ ~ok => CanFail
          /\ formattable' = [formattable EXCEPT ![e] = ok]
          /\ faults' = IF ok THEN faults ELSE faults + 1
          /\ emitFault' = [emitFault EXCEPT ![e] = ~ok]
    /\ rec' = [rec EXCEPT ![e] = nextRec]
    /\ nextRec' = nextRec + 1
    /\ newName' = [newName EXCEPT ![e] = << >>]
    /\ history' = [history EXCEPT ![e] = << >>]
    /\ newHistoryName' = [newHistoryName EXCEPT ![e] = << >>]
    /\ idx' = [idx EXCEPT ![e] = 0]
    /\ err' = [err EXCEPT ![e] = "nil"]
    /\ pc' = [pc EXCEPT ![e] = "lock"]
    /\ UNCHANGED <<now, fsVars, hookVars, Out, closePc, closes, accepted, rolls,
                   seenLabels, removed, lostToPrune, attempts, pruned, preRoll,
                   rollFailed, prevErr, straddled, closeFailed, closeErr>>

\* (mutant) the lock is taken without waiting for its holder.
LockNoWait(e) ==
    /\ pc[e] = "lock"
    /\ rollLock' = e
    /\ pc' = [pc EXCEPT ![e] = "check"]
    /\ UNCHANGED <<now, fsVars, currentFile, currentName, currentFileSize,
                   maxRolls, currentTimeFileName, Out, rec, formattable, newName,
                   history, newHistoryName, idx, err, closePc, nextRec, faults,
                   closes, ghostVars>>

\* Fire: h.rollLock.Lock()
Lock(e) ==
    /\ pc[e] = "lock"
    /\ rollLock = 0
    /\ rollLock' = e
    /\ pc' = [pc EXCEPT ![e] = "check"]
    /\ UNCHANGED <<now, fsVars, currentFile, currentName, currentFileSize,
                   maxRolls, currentTimeFileName, Out, rec, formattable, newName,
                   history, newHistoryName, idx, err, closePc, nextRec, faults,
                   closes, ghostVars>>

\* (mutant) the first roll-check records the label and answers true.
needsToRollAtStart(e) ==
    /\ pc[e] = "check"
    /\ \E t \in Readings :
          /\ now' = t
          /\ newName' = [newName EXCEPT ![e] = Format(t)]
          /\ seenLabels' = seenLabels \cup {Format(t)}
          /\ IF currentTimeFileName = << >>
             THEN /\ currentTimeFileName' = Format(t)
                  /\ pc' = [pc EXCEPT ![e] = "rollClose"]
             ELSE /\ UNCHANGED currentTimeFileName
                  /\ pc' = [pc EXCEPT ![e] =
                              IF Format(t) # currentTimeFileName
                              THEN "rollClose" ELSE "ensure"]
    /\ UNCHANGED <<fsVars, currentFile, currentName, currentFileSize,
                   maxRolls, rollLock, Out, rec, formattable, history,
                   newHistoryName, idx, err, closePc, nextRec, faults, closes,
                   accepted, rolls, removed, lostToPrune, attempts, pruned,
                   preRoll, emitFault, rollFailed, prevErr, straddled,
                   closeFailed, closeErr>>

\* Fire: if h.needsToRoll()
needsToRoll(e) ==
    /\ pc[e] = "check"
    /\ \E t \in Readings :
          /\ now' = t
          /\ newName' = [newName EXCEPT ![e] = Format(t)]
          /\ seenLabels' = seenLabels \cup {Format(t)}
          /\ IF currentTimeFileName = << >>
             THEN /\ currentTimeFileName' = Format(t)
                  /\ pc' = [pc EXCEPT ![e] = "ensure"]
             ELSE /\ UNCHANGED currentTimeFileName
                  /\ pc' = [pc EXCEPT ![e] =
                              IF Format(t) # currentTimeFileName
                              THEN "rollClose" ELSE "ensure"]
    /\ UNCHANGED <<fsVars, currentFile, currentName, currentFileSize,
                   maxRolls, rollLock, Out, rec, formattable, history,
                   newHistoryName, idx, err, closePc, nextRec, faults, closes,
                   accepted, rolls, removed, lostToPrune, attempts, pruned,
                   preRoll, emitFault, rollFailed, prevErr, straddled,
                   closeFailed, closeErr>>

\* roll: err := rf.currentFile.Close(); rf.currentFile = nil
rollClose(e) ==
    /\ pc[e] = "rollClose"
    /\ attempts' = << >>
    /\ pruned' = {}
    /\ preRoll' = IF currentFile = NIL THEN << >>
                  ELSE content[handles[currentFile].ino]
    /\ IF currentFile = NIL
       THEN /\ Return(e, "ErrInvalid")
            /\ UNCHANGED <<handles, currentFile, faults, emitFault>>
       ELSE IF ~handles[currentFile].open
       THEN /\ Return(e, "ErrClosed")
            /\ UNCHANGED <<handles, currentFile, faults, emitFault>>
       ELSE \E ok \in BOOLEAN :
               /\ ~ok => CanFail
               /\ handles' = CloseHandle(handles, currentFile)
               /\ IF ok
                  THEN /\ currentFile' = NIL
                       /\ pc' = [pc EXCEPT ![e] = "rollScan"]
                       /\ UNCHANGED <<err, faults, emitFault>>
                  ELSE /\ Return(e, "CloseError")
                       /\ faults' = faults + 1
                       /\ emitFault' = [emitFault EXCEPT ![e] = TRUE]
                       /\ UNCHANGED currentFile
    /\ UNCHANGED <<now, dir, content, currentName, currentFileSize, maxRolls,
                   currentTimeFileName, rollLock, Out, rec, formattable, newName,
                   history, newHistoryName, idx, closePc, nextRec, closes,
                   accepted, rolls, seenLabels, removed, lostToPrune, rollFailed,
                   prevErr, straddled, closeFailed, closeErr>>

\* roll: history, err := rf.getSortedLogHistory()
rollScan(e) ==
    /\ pc[e] = "rollScan"
    /\ \E ok \in BOOLEAN :
          /\ ~ok => CanFail
          /\ IF ok
             THEN /\ history' = [history EXCEPT ![e] = getSortedLogHistory(dir)]
                  /\ pc' = [pc EXCEPT ![e] = "rollRename"]
                  /\ UNCHANGED <<err, faults, emitFault>>
             ELSE /\ Return(e, "DirectoryAccessError")
                  /\ faults' = faults + 1
                  /\ emitFault' = [emitFault EXCEPT ![e] = TRUE]
                  /\ UNCHANGED history
    /\ UNCHANGED <<now, fsVars, hookVars, Out, rec, formattable, newName,
                   newHistoryName, idx, closePc, nextRec, closes, accepted,
                   rolls, seenLabels, removed, lostToPrune, attempts, pruned, preRoll,
                   rollFailed, prevErr, straddled, closeFailed, closeErr>>

\* (mutant) the label of now is not remembered.
getNewHistoryRollFileNameKeep(t) ==
    [name |-> currentTimeFileName, remembered |-> currentTimeFileName]

\* (mutant) the file is renamed to the label of now.
getNewHistoryRollFileNameNow(t) ==
    [name |-> Format(t), remembered |-> Format(t)]

\* getNewHistoryRollFileName, the clock reading t: the name is the remembered
\* label, and the label of now is remembered in its place.
getNewHistoryRollFileName(t) ==
    [name |-> currentTimeFileName, remembered |-> Format(t)]

\* roll: the new history name, os.Rename, history = append(history, name),
\* and whether deleteOldRolls is called.
rollRename(e) ==
    /\ pc[e] = "rollRename"
    /\ \E t \in Readings :
        LET g == getNewHistoryRollFileName(t)
            name == createFullFileName(fileName, g.name)
        IN  /\ now' = t
            /\ newHistoryName' = [newHistoryName EXCEPT ![e] = name]
            /\ currentTimeFileName' = g.remembered
            /\ straddled' = (straddled \/ Format(t) # newName[e])
            /\ \E ok \in BOOLEAN :
                  /\ ~ok => (CanFail /\ currentName \in DOMAIN dir)
                  /\ faults' = IF ok THEN faults ELSE faults + 1
                  /\ emitFault' = [emitFault EXCEPT ![e] = emitFault[e] \/ ~ok]
                  /\ IF ok /\ currentName \in DOMAIN dir
                     THEN /\ dir' = RenameFile(dir, currentName, name)
                          /\ history' = [history EXCEPT ![e] = Append(@, name)]
                          /\ IF Len(history[e]) + 1 > maxRolls
                             THEN /\ pc' = [pc EXCEPT ![e] = "prune"]
                                  /\ UNCHANGED rolls
                             ELSE /\ pc' = [pc EXCEPT ![e] = "ensure"]
                                  /\ rolls' = rolls + 1
                          /\ UNCHANGED err
                     ELSE /\ Return(e, "RenameError")
                          /\ UNCHANGED <<dir, history, rolls>>
    /\ idx' = [idx EXCEPT ![e] = 0]
    /\ UNCHANGED <<content, handles, currentFile, currentName,
                   currentFileSize, maxRolls, rollLock, Out, rec, formattable,
                   newName, closePc, nextRec, closes, accepted, seenLabels,
                   removed, lostToPrune, attempts, pruned, preRoll, rollFailed,
                   prevErr, closeFailed, closeErr>>

\* tryRemoveFile: the error of os.Remove, but for a file that does not
\* exist, which is no error.
tryRemoveFile(exists, ok) ==
    IF ~exists THEN "nil" ELSE IF ok THEN "nil" ELSE "RemoveError"

\* (mutant) the loop returns the error of tryRemoveFile.
afterRemoveAbort(rerr) == IF rerr = "nil" THEN "continue" ELSE "return"

\* deleteOldRolls: what its loop does with the error of tryRemoveFile: it is
\* printed and the loop goes on.
afterRemove(rerr) == "continue"

\* deleteOldRolls: one turn of its loop (tryRemoveFile on history[i]), or its
\* return nil, which is also roll's.
deleteOldRolls(e) ==
    /\ pc[e] = "prune"
    /\ IF idx[e] < rollsToDelete(history[e], maxRolls)
       THEN LET name == history[e][idx[e] + 1]
                exists == name \in DOMAIN dir
            IN  /\ idx' = [idx EXCEPT ![e] = idx[e] + 1]
                /\ attempts' = Append(attempts, name)
                /\ \E ok \in BOOLEAN :
                      /\ ~ok => (CanFail /\ exists)
                      /\ faults' = IF ok THEN faults ELSE faults + 1
                      /\ emitFault' = [emitFault EXCEPT ![e] = emitFault[e] \/ ~ok]
                      /\ IF ok /\ exists
                         THEN /\ dir' = RemoveFile(dir, name)
                              /\ removed' = removed \cup {name}
                              /\ pruned' = pruned \cup {name}
                              /\ lostToPrune' =
                                    lostToPrune \cup Range(content[dir[name]])
                         ELSE UNCHANGED <<dir, removed, pruned, lostToPrune>>
                      /\ IF afterRemove(tryRemoveFile(exists, ok)) = "continue"
                         THEN UNCHANGED <<pc, err>>
                         ELSE Return(e, "RemoveError")
                /\ UNCHANGED rolls
       ELSE /\ pc' = [pc EXCEPT ![e] = "ensure"]
            /\ rolls' = rolls + 1
            /\ UNCHANGED <<dir, idx, attempts, removed, pruned, lostToPrune,
                           faults, emitFault, err>>
    /\ UNCHANGED <<now, content, handles, hookVars, Out, rec, formattable,
                   newName, history, newHistoryName, closePc, nextRec,
                   closes, accepted, seenLabels, preRoll, rollFailed, prevErr,
                   straddled, closeFailed, closeErr>>

\* Fire: if h.currentFile == nil, createFileAndFolderIfNeeded (MkdirAll,
\* OpenFile, Stat).
createFileAndFolderIfNeeded(e) ==
    /\ pc[e] = "ensure"
    /\ IF currentFile # NIL
       THEN /\ pc' = [pc EXCEPT ![e] = "format"]
            /\ UNCHANGED <<fsVars, currentFile, currentName, currentFileSize,
                           err, faults, emitFault>>
       ELSE \E res \in {"nil", "MkdirError", "OpenError", "StatError"} :
               LET o == OpenFile(dir, content, fileName)
                   h == Len(handles) + 1
               IN  /\ res # "nil" => CanFail
                   /\ faults' = IF res = "nil" THEN faults ELSE faults + 1
                   /\ emitFault' = [emitFault EXCEPT ![e] = emitFault[e] \/ res # "nil"]
                   /\ currentName' = IF res = "MkdirError" THEN currentName
                                     ELSE fileName
                   /\ IF res \in {"nil", "StatError"}
                      THEN /\ dir' = o.dir
                           /\ content' = o.content
                           /\ handles' = Append(handles,
                                            [ino |-> o.ino, open |-> res = "nil"])
                      ELSE UNCHANGED fsVars
                   /\ IF res = "nil"
                      THEN /\ currentFile' = h
                           /\ currentFileSize' = SizeOf(o.content[o.ino])
                           /\ pc' = [pc EXCEPT ![e] = "setOut"]
                           /\ UNCHANGED err
                      ELSE /\ currentFile' = NIL
                           /\ Return(e, res)
                           /\ UNCHANGED currentFileSize
    /\ UNCHANGED <<now, maxRolls, currentTimeFileName, rollLock, Out, rec,
                   formattable, newName, history, newHistoryName, idx, closePc,
                   nextRec, closes, accepted, rolls, seenLabels, removed,
                   lostToPrune, attempts, pruned, preRoll, rollFailed, prevErr,
                   straddled, closeFailed, closeErr>>

\* Fire: e.Logger.Out = h.currentFile
setOut(e) ==
    /\ pc[e] = "setOut"
    /\ Out' = currentFile
    /\ pc' = [pc EXCEPT ![e] = "format"]
    /\ UNCHANGED <<now, fsVars, hookVars, rec, formattable, newName, history,
                   newHistoryName, idx, err, closePc, nextRec, faults, closes,
                   ghostVars>>

\* Fire: Formatter.Format(e) and h.currentFileSize += int64(len(serialized))
formatAndCount(e) ==
    /\ pc[e] = "format"
    /\ IF formattable[e]
       THEN /\ currentFileSize' = currentFileSize + RecLen(rec[e])
            /\ Return(e, "nil")
       ELSE /\ Return(e, "FormatError")
            /\ UNCHANGED currentFileSize
    /\ UNCHANGED <<now, fsVars, currentFile, currentName, maxRolls,
                   currentTimeFileName, rollLock, Out, rec, formattable, newName,
                   history, newHistoryName, idx, closePc, nextRec, faults,
                   closes, ghostVars>>

\* Fire returns: the deferred h.rollLock.Unlock()
Unlock(e) ==
    /\ pc[e] = "unlock"
    /\ rollLock' = 0
    /\ accepted' = IF err[e] = "nil" THEN accepted \cup {rec[e]} ELSE accepted
    /\ prevErr' = err[e]
    /\ rollFailed' = IF err[e] \in RollErrors THEN RollStep(err[e]) ELSE rollFailed
    /\ pc' = [pc EXCEPT ![e] = "write"]
    /\ UNCHANGED <<now, fsVars, currentFile, currentName, currentFileSize,
                   maxRolls, currentTimeFileName, Out, rec, formattable, newName,
                   history, newHistoryName, idx, err, closePc, nextRec, faults,
                   closes, rolls, seenLabels, removed, lostToPrune, attempts, pruned,
                   preRoll, emitFault, straddled, closeFailed, closeErr>>

\* The framework, after the hooks: the serialized record is written to
\* Logger.Out (appended, when Out is an open file; lost on a closed or nil
\* one; on the terminal when Out is still stderr).
FrameworkWrite(e) ==
    /\ pc[e] = "write"
    /\ content' = IF formattable[e] /\ Out > 0 /\ handles[Out].open
                  THEN [content EXCEPT ![handles[Out].ino] = Append(@, rec[e])]
                  ELSE content
    /\ pc' = [pc EXCEPT ![e] = "idle"]
    /\ UNCHANGED <<now, dir, handles, hookVars, Out, rec, formattable, newName,
                   history, newHistoryName, idx, err, closePc, nextRec, faults,
                   closes, ghostVars>>

\* -------------------------------------------------------------------- Close
\* Close: if rf.currentFile != nil { e := rf.currentFile.Close(); ... }
CloseCall ==
    /\ closePc = "idle"
    /\ closes < MaxCloses
    /\ closes' = closes + 1
    /\ IF currentFile = NIL
       THEN /\ closeErr' = "nil"
            /\ UNCHANGED <<handles, closePc, faults, closeFailed>>
       ELSE IF ~handles[currentFile].open
       THEN /\ closeFailed' = TRUE
            /\ closeErr' = "ErrClosed"
            /\ UNCHANGED <<handles, closePc, faults>>
       ELSE \E ok \in BOOLEAN :
               /\ ~ok => CanFail
               /\ handles' = CloseHandle(handles, currentFile)
               /\ faults' = IF ok THEN faults ELSE faults + 1
               /\ closePc' = IF ok THEN "clear" ELSE "idle"
               /\ closeFailed' = (closeFailed \/ ~ok)
               /\ closeErr' = IF ok THEN "nil" ELSE "CloseError"
    /\ UNCHANGED <<now, dir, content, hookVars, Out, emVars, nextRec, accepted,
                   rolls, seenLabels, removed, lostToPrune, attempts, pruned, preRoll,
                   emitFault, rollFailed, prevErr, straddled>>

\* Close: rf.currentFile = nil
CloseClear ==
    /\ closePc = "clear"
    /\ currentFile' = NIL
    /\ closePc' = "idle"
    /\ UNCHANGED <<now, fsVars, currentName, currentFileSize, maxRolls,
                   currentTimeFileName, rollLock, Out, emVars, nextRec, faults,
                   closes, ghostVars>>

\* ------------------------------------------------------- the specifications
\* One emitter: the framework calls Fire for one record after the other.
Next ==
    \/ EmitCall(1)
    \/ Lock(1)
    \/ needsToRoll(1)
    \/ rollClose(1)
    \/ rollScan(1)
    \/ rollRename(1)
    \/ deleteOldRolls(1)
    \/ createFileAndFolderIfNeeded(1)
    \/ setOut(1)
    \/ formatAndCount(1)
    \/ Unlock(1)
    \/ FrameworkWrite(1)

\* Several emitters and a caller of Close, each on a thread of its own.
ConcNext ==
    \/ \E e \in Emitters : EmitCall(e)
    \/ \E e \in Emitters : Lock(e)
    \/ \E e \in Emitters : needsToRoll(e)
    \/ \E e \in Emitters : rollClose(e)
    \/ \E e \in Emitters : rollScan(e)
    \/ \E e \in Emitters : rollRename(e)
    \/ \E e \in Emitters : deleteOldRolls(e)
    \/ \E e \in Emitters : createFileAndFolderIfNeeded(e)
    \/ \E e \in Emitters : setOut(e)
    \/ \E e \in Emitters : formatAndCount(e)
    \/ \E e \in Emitters : Unlock(e)
    \/ \E e \in Emitters : FrameworkWrite(e)
    \/ CloseCall
    \/ CloseClear

\* The concurrent runs start in a directory with the history of the first
\* past day and no active file.
ConcInit ==
    /\ Init
    /\ DOMAIN dir = Range(noiseNames) \cup {createFullFileName(fileName, Format(0))}
    /\ maxRolls = 1

ConcSpec == ConcInit /\ [][ConcNext]_vars

\* Several emitters and no caller of Close.
EmitNext ==
    \/ \E e \in Emitters : EmitCall(e)
    \/ \E e \in Emitters : Lock(e)
    \/ \E e \in Emitters : needsToRoll(e)
    \/ \E e \in Emitters : rollClose(e)
    \/ \E e \in Emitters : rollScan(e)
    \/ \E e \in Emitters : rollRename(e)
    \/ \E e \in Emitters : deleteOldRolls(e)
    \/ \E e \in Emitters : createFileAndFolderIfNeeded(e)
    \/ \E e \in Emitters : setOut(e)
    \/ \E e \in Emitters : formatAndCount(e)
    \/ \E e \in Emitters : Unlock(e)
    \/ \E e \in Emitters : FrameworkWrite(e)

\* The steps of Fire after it has taken the lock.
Fire(e) ==
    \/ needsToRoll(e)
    \/ rollClose(e)
    \/ rollScan(e)
    \/ rollRename(e)
    \/ deleteOldRolls(e)
    \/ createFileAndFolderIfNeeded(e)
    \/ setOut(e)
    \/ formatAndCount(e)
    \/ Unlock(e)

RaceSpec == ConcInit /\ [][EmitNext]_vars

\* Fair scheduling: a goroutine that can go on inside Fire, or can take the
\* mutex, does so in the end.  (Weak fairness is less than sync.Mutex gives,
\* which hands the lock to a waiter that starves; it is enough here because
\* the other emitters run out of records.)
Fairness ==
    \A e \in Emitters : WF_vars(Lock(e) \/ Fire(e))

FairSpec == ConcInit /\ [][EmitNext]_vars /\ Fairness

\* One caller that logs and closes the hook, one call after the other.
Emit == closePc = "idle" /\ EmitCall(1)

Close == pc[1] = "idle" /\ CloseCall

CloseNext ==
    \/ Emit
    \/ Lock(1)
    \/ needsToRoll(1)
    \/ rollClose(1)
    \/ rollScan(1)
    \/ rollRename(1)
    \/ deleteOldRolls(1)
    \/ createFileAndFolderIfNeeded(1)
    \/ setOut(1)
    \/ formatAndCount(1)
    \/ Unlock(1)
    \/ FrameworkWrite(1)
    \/ Close
    \/ CloseClear

CloseSpec == ConcInit /\ [][CloseNext]_vars

Spec == Init /\ [][Next]_vars

\* =================================================================== claims
\* The history files of a directory, as the scan finds them.
HistoryNames(d) == Range(getSortedLogHistory(d))

\* The active file and the history files that are there.
LogFiles == {n \in DOMAIN dir :
                n = fileName \/
                (hasRollName(n) /\ isFileRollNameValid(getFileRollName(n)))}

CountIn(c, r) == Cardinality({i \in 1..Len(c) : c[i] = r})

\* Record r stands exactly once in the active file and the history files.
ExactlyOnce(r) ==
    /\ Cardinality({n \in LogFiles : CountIn(content[dir[n]], r) > 0}) = 1
    /\ \A n \in LogFiles : CountIn(content[dir[n]], r) <= 1

\* The records whose Emit returned nil and whose write the framework has done.
Settled == accepted \ {rec[e] : e \in {f \in Emitters : pc[f] = "write"}}

\* The roll of emitter e's current Emit has renamed the active file.
RollRenamed(e) ==
    /\ newHistoryName[e] # << >>
    /\ history[e] # << >>
    /\ history[e][Len(history[e])] = newHistoryName[e]

\* ... and has returned.
RollDone(e) == RollRenamed(e) /\ pc[e] # "prune"

\* -------------------------------------------------------------------- C1
NoHistoryAtStart ==
    \A d \in PastDays :
        createFullFileName(fileName, Format(d * TicksPerDay))
            \notin (DOMAIN dir \cup removed)

LatestLabel ==
    CHOOSE l \in seenLabels :
        \A m \in seenLabels : ParseInLocation(m) <= ParseInLocation(l)

C1_Pre ==
    /\ pc[1] = "idle"
    /\ seenLabels # {}
    /\ NoHistoryAtStart
    /\ maxRolls <= 0
    /\ faults = 0

C1_Post ==
    /\ rolls = Cardinality(seenLabels) - 1
    /\ HistoryNames(dir) =
          {createFullFileName(fileName, l) : l \in seenLabels \ {LatestLabel}}

\* C1 as stated: Emits in N distinct increasing buckets, from a directory
\* with no history, unlimited retention, no failing call: N-1 rolls and
\* exactly the N-1 history files of the completed buckets.
C1_Original == C1_Pre => C1_Post

\* C1 (amended): the same, for runs in which no roll saw the clock change
\* bucket between needsToRoll's reading and getNewHistoryRollFileName's.
C1_RollsPerBucket == (C1_Pre /\ ~straddled) => C1_Post

C1_Witness ==
    /\ C1_Pre
    /\ ~straddled
    /\ Cardinality(seenLabels) = 3
    /\ rolls = 2
    /\ Cardinality(HistoryNames(dir)) = 2

\* -------------------------------------------------------------------- C2
\* C2: after a successful roll the new history file holds what the active
\* file held when the roll began; and every record Emit accepted stands
\* exactly once in the active file and the history files pruning has left
\* (runs of Emits, with failing calls, and without calls of Close).
C2_RollPreservesRecords ==
    /\ RollRenamed(1) =>
          /\ newHistoryName[1] \in DOMAIN dir
          /\ content[dir[newHistoryName[1]]] = preRoll
    /\ \A r \in Settled \ lostToPrune : ExactlyOnce(r)

C2_Witness ==
    /\ RollDone(1)
    /\ pc[1] = "idle"
    /\ Len(preRoll) >= 2
    /\ content[dir[newHistoryName[1]]] = preRoll
    /\ Cardinality(Settled) = 3
    /\ fileName \in DOMAIN dir
    /\ Len(content[dir[fileName]]) = 1

\* -------------------------------------------------------------------- C3
\* C3 as stated: with emitters racing, and no failing call and no Close, no
\* record Emit accepted is lost or written twice around a roll.
C3_NoRecordLostInRace ==
    (faults = 0 /\ closes = 0) =>
        \A r \in Settled \ lostToPrune : ExactlyOnce(r)

\* -------------------------------------------------------------------- C4
\* What C4 says of a roll that has returned, H the history it was left with
\* (the scan's entries and the new one), L the retention limit.
C4_Post(e) ==
    LET H == Len(history[e])
        L == maxRolls
    IN  /\ (L > 0 /\ H > L) =>
              /\ Cardinality(pruned) = H - L
              /\ Cardinality(HistoryNames(dir)) = L
              /\ \A a \in pruned : \A b \in HistoryNames(dir) :
                    Less(getFileRollName(a), getFileRollName(b))
        /\ (L > 0 /\ H <= L) => pruned = {}

\* C4 as stated: a roll that leaves H > L > 0 history files removes exactly
\* the H-L oldest and leaves L; with H <= L it removes none.
C4_Original == RollDone(1) => C4_Post(1)

\* C4 (amended): the same, for a roll none of whose delete calls failed.
C4_PrunesOldest ==
    (RollDone(1) /\ Range(attempts) = pruned) => C4_Post(1)

C4_Witness ==
    /\ RollDone(1)
    /\ Range(attempts) = pruned
    /\ maxRolls = 1
    /\ Len(history[1]) = 3
    /\ Cardinality(pruned) = 2
    /\ HistoryNames(dir) = {newHistoryName[1]}

\* -------------------------------------------------------------------- C5
\* C5: with a retention limit <= 0 no step ever takes a history file out of
\* the directory.
C5_UnlimitedNeverPrunes ==
    [][maxRolls <= 0 => HistoryNames(dir) \subseteq HistoryNames(dir')]_vars

C5_Witness ==
    /\ maxRolls <= 0
    /\ rolls = 2
    /\ Cardinality(HistoryNames(dir)) = 4
    /\ pc[1] = "idle"

\* -------------------------------------------------------------------- C6
\* The active handle is an open file.
HandleOpen == currentFile # NIL /\ handles[currentFile].open

\* C6 as stated: once a roll has failed (at its close, scan or rename), a
\* later Emit during which no call fails returns success with the active
\* file open.
C6_RollFailureRecoverable ==
    (/\ pc[1] = "unlock"
     /\ rollFailed # "none"
     /\ ~emitFault[1]) => (err[1] = "nil" /\ HandleOpen)

\* -------------------------------------------------------------------- C7
\* The positions of Fire from the roll-check to the open.
CheckRollOpen == {"check", "rollClose", "rollScan", "rollRename", "prune",
                  "ensure", "setOut"}

\* C7 as stated: Close takes the lock of Emit, so Close is never half done
\* (handle closed, field not yet cleared) while an emitter is between its
\* roll-check and its open.
C7_CloseSerializedWithEmit ==
    closePc = "clear" => \A e \in Emitters : pc[e] \notin CheckRollOpen

\* -------------------------------------------------------------------- C8
OpenOrCloseErrors == {"MkdirError", "OpenError", "StatError", "CloseError"}

\* C8 as stated: after an Emit that failed on opening (or closing) the
\* active file, the next Emit, during which no call fails, succeeds, in the
\* same bucket or in a later one.
C8_OpenFailureRecoverable ==
    (/\ pc[1] = "unlock"
     /\ prevErr \in OpenOrCloseErrors
     /\ ~emitFault[1]) => err[1] = "nil"

\* -------------------------------------------------------------------- C9
\* C9 as stated: a failed rename returns the error with the handle unset and
\* the file still under the base name; the next Emit does not roll again and
\* opens the active file under the base name.
C9_RenameNeverRetried ==
    /\ (pc[1] = "unlock" /\ err[1] = "RenameError") =>
          (currentFile = NIL /\ fileName \in DOMAIN dir)
    /\ (/\ pc[1] = "unlock"
        /\ prevErr = "RenameError"
        /\ ~emitFault[1]) =>
          /\ err[1] = "nil"
          /\ newHistoryName[1] = << >>
          /\ HandleOpen
          /\ handles[currentFile].ino = dir[fileName]

\* ------------------------------------------------------------------- C10
\* The delete attempts of the roll in progress are its oldest entries, each
\* once, in order.
AttemptsAreOldest(e) ==
    /\ Len(attempts) = idx[e]
    /\ \A i \in 1..Len(attempts) : attempts[i] = history[e][i]

\* C10: a failed deletion does not abort the roll: every one of the
\* (count - limit) oldest entries gets its one attempt, the roll returns nil
\* (no Emit returns an error of pruning) and its Emit goes on to the open.
C10_PruneFailureTolerated ==
    /\ [](RollRenamed(1) =>
            /\ AttemptsAreOldest(1)
            /\ err[1] \in {"nil", "MkdirError", "OpenError", "StatError",
                           "FormatError"}
            /\ pc[1] # "prune" =>
                  Len(attempts) = rollsToDelete(history[1], maxRolls))
    /\ [][pc[1] = "prune" /\ pc'[1] # "prune" =>
            /\ pc'[1] = "ensure"
            /\ currentFile' = NIL
            /\ idx[1] = rollsToDelete(history[1], maxRolls)]_vars

C10_Witness ==
    /\ RollDone(1)
    /\ pc[1] = "setOut"
    /\ Len(attempts) = 2
    /\ attempts[1] \in DOMAIN dir
    /\ attempts[2] \notin DOMAIN dir
    /\ HandleOpen

\* ------------------------------------------------------------------- C11
\* A name of the form <baseName><delimiter><suffix> whose suffix parses
\* under the pattern.
IsHistoryName(n) ==
    /\ hasRollName(n)
    /\ ParseInLocation(getFileRollName(n)) # -1

\* C11: the entries a roll works on are history names only, and pruning has
\* removed history names only: the files of other names and the file with
\* an invalid suffix are still there, and the active file's name was never
\* deleted.
C11_PruningTouchesHistoryOnly ==
    /\ \A i \in 1..Len(history[1]) : IsHistoryName(history[1][i])
    /\ \A n \in removed : IsHistoryName(n) /\ n # fileName
    /\ Range(noiseNames) \subseteq DOMAIN dir
    /\ \A n \in Range(noiseNames) : ~IsHistoryName(n)

C11_Witness ==
    /\ Cardinality(removed) = 2
    /\ Range(noiseNames) \subseteq DOMAIN dir
    /\ fileName \in DOMAIN dir
    /\ pc[1] = "idle"

\* ------------------------------------------------------------------- C12
\* The positions of Fire inside roll.
InRoll == {"rollClose", "rollScan", "rollRename", "prune"}

\* C12: the first Emit is never inside roll; the first roll-check records
\* the label of the time it reads and answers false; every later one leaves
\* the remembered label alone and answers true exactly when the label of the
\* time it reads differs from it.
C12_FirstEmitNeverRolls ==
    /\ [](rec[1] = 1 => (pc[1] \notin InRoll /\ rolls = 0))
    /\ [][pc[1] = "check" =>
            IF currentTimeFileName = << >>
            THEN /\ currentTimeFileName' = Format(now')
                 /\ pc'[1] = "ensure"
            ELSE /\ currentTimeFileName' = currentTimeFileName
                 /\ (pc'[1] = "rollClose") <=>
                        (Format(now') # currentTimeFileName)
                 /\ pc'[1] \in {"rollClose", "ensure"}]_vars

C12_Witness ==
    /\ rec[1] = 2
    /\ pc[1] = "rollClose"
    /\ newName[1] # currentTimeFileName
    /\ fileName \in DOMAIN dir
    /\ Len(content[dir[fileName]]) = 2

\* ------------------------------------------------------------------- C13
\* C13: the step of roll that names the history file takes the label that
\* was remembered before it, which is not the label of the time it reads,
\* and remembers the label of that time; a rename puts the active file's
\* inode under that name; and when the roll has returned the remembered
\* label is the label of the current time.
C13_RenamedToRememberedLabel ==
    /\ [][pc[1] = "rollRename" =>
            /\ newHistoryName'[1] =
                  createFullFileName(fileName, currentTimeFileName)
            /\ currentTimeFileName # Format(now')
            /\ currentTimeFileName' = Format(now')
            /\ dir' # dir =>
                  /\ dir'[newHistoryName'[1]] = dir[currentName]
                  /\ currentName \notin DOMAIN dir']_vars
    /\ []((RollDone(1) /\ pc[1] # "idle") =>
            currentTimeFileName = Format(now))

C13_Witness ==
    /\ RollDone(1)
    /\ pc[1] = "ensure"
    /\ newHistoryName[1] = createFullFileName(fileName, Format(StartTime))
    /\ newHistoryName[1] \in DOMAIN dir
    /\ now >= StartTime + TicksPerDay
    /\ currentTimeFileName = Format(now)

\* ------------------------------------------------------------------- C14
\* C14: the open of the active file keeps the content of a file that is
\* there and sets the tracked size to its length; an accepted record adds
\* its serialized length to the tracked size; and so, between Emits, the
\* tracked size of an open active file is the length of the file.
C14_OpenAppendsAndTracksSize ==
    /\ [][(pc[1] = "ensure" /\ pc'[1] = "setOut") =>
            /\ fileName \in DOMAIN dir =>
                  /\ dir'[fileName] = dir[fileName]
                  /\ content'[dir'[fileName]] = content[dir[fileName]]
            /\ currentFileSize' = SizeOf(content'[dir'[fileName]])]_vars
    /\ [][(pc[1] = "format" /\ pc'[1] = "unlock") =>
            currentFileSize' = currentFileSize +
                (IF err'[1] = "nil" THEN RecLen(rec[1]) ELSE 0)]_vars
    /\ []((pc[1] = "idle" /\ HandleOpen) =>
            currentFileSize = SizeOf(content[handles[currentFile].ino]))

C14_Witness ==
    /\ pc[1] = "idle"
    /\ HandleOpen
    /\ rolls = 0
    /\ content[handles[currentFile].ino] = <<0, 1, 2>>
    /\ currentFileSize = SizeOf(<<0, 1, 2>>)

\* ------------------------------------------------------------------- C15
\* C15 as stated: a call of Close that finds no open handle returns nil and
\* changes nothing; no step of Close renames or deletes a file; and when a
\* call of Close has returned nil the handle is cleared, so that a second
\* call leaves what the first left.
C15_CloseIdempotent ==
    /\ [][(closes' = closes + 1 /\ ~HandleOpen) =>
            /\ closeErr' = "nil"
            /\ UNCHANGED <<fsVars, hookVars, Out>>]_vars
    /\ [][(closes' # closes \/ closePc' # closePc) =>
            UNCHANGED <<dir, content>>]_vars
    /\ [][(closes' # closes /\ closePc' = "idle" /\ closeErr' = "nil") =>
            currentFile' = NIL]_vars
    /\ [][(closePc = "clear" /\ closePc' = "idle") =>
            /\ currentFile' = NIL
            /\ \A h \in 1..Len(handles) : ~handles'[h].open]_vars

\* ------------------------------------------------------------------- C16
\* C16 as stated: when Emit returns nil the active handle is open on the
\* file named <baseName> and Logger.Out is that handle.
C16_SuccessMeansOpenTarget ==
    (pc[1] = "unlock" /\ err[1] = "nil") =>
        /\ HandleOpen
        /\ fileName \in DOMAIN dir
        /\ handles[currentFile].ino = dir[fileName]
        /\ Out = currentFile

\* ------------------------------------------------------------------- C17
\* No handle is open on the inode of the name n.
NoOpenHandleOn(n) ==
    \A h \in 1..Len(handles) : handles[h].ino = dir[n] => ~handles[h].open

\* C17: the rename happens with the handle closed and cleared and the
\* history scanned; a history file is deleted only when the rename has put
\* the new history file in its place; a roll that returns an error has
\* deleted nothing; and the active file is opened outside roll, with no
\* handle set.
C17_RollStepsInOrder ==
    /\ [][(fileName \in DOMAIN dir /\ fileName \notin DOMAIN dir') =>
            /\ currentFile = NIL
            /\ NoOpenHandleOn(fileName)
            /\ history[1] = getSortedLogHistory(dir)
            /\ newHistoryName'[1] \in DOMAIN dir']_vars
    /\ [][(HistoryNames(dir) \ HistoryNames(dir')) # {} =>
            /\ RollRenamed(1)
            /\ newHistoryName[1] \in DOMAIN dir \/ newHistoryName[1] \in pruned
            /\ currentFile = NIL]_vars
    /\ []((pc[1] = "unlock" /\ err[1] \in
              (RollErrors \cup {"ErrInvalid", "ErrClosed"})) =>
            (pruned = {} /\ attempts = << >>))
    /\ [][Len(handles') > Len(handles) =>
            /\ pc[1] = "ensure"
            /\ currentFile = NIL]_vars

C17_Witness ==
    /\ RollDone(1)
    /\ pc[1] = "idle"
    /\ pruned # {}
    /\ rolls = 1
    /\ HandleOpen
    /\ fileName \in DOMAIN dir
    /\ newHistoryName[1] \in DOMAIN dir

\* ------------------------------------------------------------------- C19
\* The start of the bucket a history name is labelled with.
BucketOf(n) == ParseInLocation(getFileRollName(n))

\* C19: the rename's target is a name that is not in the directory, and the
\* history list with the new name appended is strictly ascending by bucket.
C19_NewHistoryNameIsFresh ==
    /\ [][(fileName \in DOMAIN dir /\ fileName \notin DOMAIN dir') =>
            /\ newHistoryName'[1] \notin DOMAIN dir
            /\ Cardinality(DOMAIN dir') = Cardinality(DOMAIN dir)]_vars
    /\ [](RollRenamed(1) =>
            \A i \in 1..Len(history[1]) : \A j \in 1..Len(history[1]) :
                i < j => BucketOf(history[1][i]) < BucketOf(history[1][j]))

C19_Witness ==
    /\ RollRenamed(1)
    /\ Len(history[1]) = 3
    /\ BucketOf(history[1][1]) < BucketOf(history[1][2])
    /\ BucketOf(history[1][2]) < BucketOf(history[1][3])
    /\ rolls = 2
    /\ pc[1] = "ensure"

\* ------------------------------------------------------------------- C18
\* The positions of Fire at which its caller holds the lock.
LockHeld == CheckRollOpen \cup {"format", "unlock"}

AllIdle == \A e \in Emitters : pc[e] = "idle"

\* C18: with emitters racing, one emitter at a time is between Lock and
\* Unlock; a rename never targets a name that a rename has produced before;
\* the rolls done and in progress never outnumber the bucket boundaries the
\* roll-checks have seen; and in a run with no failing call, no Close and no
\* boundary crossed inside a roll, every boundary seen has had its one roll.
C18_OneRollPerBoundary ==
    /\ [](Cardinality({e \in Emitters : pc[e] \in LockHeld}) <= 1)
    /\ [](\A e \in Emitters : pc[e] \in LockHeld => rollLock = e)
    /\ [][\A e \in Emitters :
            (pc[e] = "rollRename" /\ dir' # dir) =>
                newHistoryName'[e] \notin (DOMAIN dir \cup removed)]_vars
    /\ [](seenLabels # {} =>
            rolls + Cardinality({e \in Emitters : pc[e] \in InRoll})
                <= Cardinality(seenLabels) - 1)
    /\ []((AllIdle /\ seenLabels # {} /\ faults = 0 /\ closes = 0
              /\ ~straddled) =>
            rolls = Cardinality(seenLabels) - 1)

C18_Witness ==
    /\ faults = 0
    /\ closes = 0
    /\ rolls = 1
    /\ RollDone(1)
    /\ pc[1] = "write"
    /\ pc[2] = "ensure"
    /\ rec[2] = rec[1] + 1
    /\ newName[2] = currentTimeFileName
    /\ newHistoryName[2] = << >>

\* ------------------------------------------------------------------- C20
\* Emitter e is not inside Fire.
Returned(e) == pc[e] \in {"write", "idle"}

\* C20: under fair scheduling every emitter that has called Fire returns
\* from it, whatever Fire returns; and the lock is free whenever no emitter
\* is between Lock and Unlock.
C20_EmitTerminatesLockFreed ==
    /\ \A e \in Emitters : (pc[e] = "lock") ~> Returned(e)
    /\ []((\A e \in Emitters : pc[e] \notin LockHeld) => rollLock = 0)

C20_Witness ==
    /\ pc[1] = "write"
    /\ err[1] \in RollErrors
    /\ pc[2] = "check"
    /\ rollLock = 2
====
